---- MODULE Spec2Model ----
(***************************************************************************)
(* Lexicon compilation of speechbrain/decoders/prepare_lang_bpe.py, driven *)
(* as recipes/LibriSpeech/ASR/transformer/generate_lexicon.py drives it:   *)
(* generate_lexicon, add_disambig_symbols, the registration of #0..#max in *)
(* the token table, and lexicon_to_fst_no_sil for L (no self-loops) and    *)
(* L_disambig (self-loops).                                                *)
(*                                                                         *)
(* A lexicon is a sequence of pairs <<word, prons>>; a token is a          *)
(* non-empty string without white space (a field of a lexicon line).  A    *)
(* Python string built by " ".join is a sequence of pieces, each a token   *)
(* or the separator SP, so that join, the f-string " #{k}" and str.split   *)
(* are computed, not assumed to invert each other.                         *)
(***************************************************************************)
EXTENDS Integers, Sequences, FiniteSets, TLC

\* ------------------------------------------------------------------ bounds
MaxEntries == 3
MaxTokens == 5

\* ------------------------------------------------------------------ inputs
\* The pieces the BPE model can segment a word into.  "#1" is an ordinary
\* piece that happens to have the shape of a disambiguation symbol.
Tokens == {"a", "b", "#1"}

\* The i-th word of words.txt.
WordAt(i) == "W" \o ToString(i)

\* The number of tokens in the first i pronunciations of lengths lens.
RECURSIVE TokensBefore(_, _)
TokensBefore(lens, i) ==
    IF i = 0 THEN 0 ELSE lens[i] + TokensBefore(lens, i - 1)

\* The segmentations whose i-th one is the next lens[i] tokens of flat.
PiecesOf(lens, flat) ==
    [i \in 1..Len(lens) |->
        SubSeq(flat, TokensBefore(lens, i - 1) + 1, TokensBefore(lens, i))]

\* ------------------------------------------------------- Python primitives
SP == " "

\* collections.defaultdict(int): a missing key reads as 0.
DGet(d, k) == IF k \in DOMAIN d THEN d[k] ELSE 0

DSet(d, k, v) == [x \in DOMAIN d \cup {k} |-> IF x = k THEN v ELSE d[x]]

\* " ".join(prons)
RECURSIVE Join(_)
Join(prons) ==
    IF prons = <<>> THEN <<>>
    ELSE IF Len(prons) = 1 THEN <<prons[1]>>
    ELSE <<prons[1], SP>> \o Join(Tail(prons))

\* str.split(): the maximal runs of pieces that are not white space.
RECURSIVE SplitFrom(_, _, _, _)
SplitFrom(s, i, cur, acc) ==
    IF i > Len(s) THEN (IF cur = "" THEN acc ELSE Append(acc, cur))
    ELSE IF s[i] = SP
         THEN SplitFrom(s, i + 1, "", IF cur = "" THEN acc ELSE Append(acc, cur))
         ELSE SplitFrom(s, i + 1, cur \o s[i], acc)

Split(s) == SplitFrom(s, 1, "", <<>>)

\* f" #{cur_disambig}"
DisambigSuffix(k) == <<SP, "#" \o ToString(k)>>

\* ----------------------------------------------------- add_disambig_symbols
\* (1) the count of each phone-sequence
RECURSIVE CountLoop(_, _, _)
CountLoop(lexicon, i, count) ==
    IF i > Len(lexicon) THEN count
    ELSE LET k == Join(lexicon[i][2])
         IN  CountLoop(lexicon, i + 1, DSet(count, k, DGet(count, k) + 1))

\* (2) inner loop: after the first pop, mark every non-empty left
\* sub-sequence that remains.
RECURSIVE MarkPrefixes(_, _)
MarkPrefixes(prons, issubseq) ==
    IF prons = <<>> THEN issubseq
    ELSE MarkPrefixes(SubSeq(prons, 1, Len(prons) - 1), DSet(issubseq, Join(prons), 1))

\* Variant of SubseqLoop without the first pop: a sequence counts as a left
\* sub-sequence of itself.
RECURSIVE SubseqLoopNoPop(_, _, _)
SubseqLoopNoPop(lexicon, i, issubseq) ==
    IF i > Len(lexicon) THEN [raised |-> "none", issubseq |-> issubseq]
    ELSE LET prons == lexicon[i][2]
         IN  IF prons = <<>>
             THEN [raised |-> "IndexError", issubseq |-> issubseq]
             ELSE SubseqLoopNoPop(lexicon, i + 1, MarkPrefixes(prons, issubseq))

\* (2) outer loop.  list.pop() on an empty pronunciation raises IndexError.
RECURSIVE SubseqLoop(_, _, _)
SubseqLoop(lexicon, i, issubseq) ==
    IF i > Len(lexicon) THEN [raised |-> "none", issubseq |-> issubseq]
    ELSE LET prons == lexicon[i][2]
         IN  IF prons = <<>>
             THEN [raised |-> "IndexError", issubseq |-> issubseq]
             ELSE SubseqLoop(lexicon, i + 1,
                             MarkPrefixes(SubSeq(prons, 1, Len(prons) - 1), issubseq))

first_allowed_disambig == 1

\* Variant of DisambigStep that gives every ambiguous entry the first index.
DisambigStepSameIndex(st, word, prons, count, issubseq) ==
    LET phnseq == Join(prons)
    IN  IF DGet(issubseq, phnseq) = 0 /\ DGet(count, phnseq) = 1
        THEN [st EXCEPT !.ans = Append(@, <<word, prons>>)]
        ELSE LET cur_disambig == first_allowed_disambig
             IN  [ans |-> Append(st.ans, <<word, Split(phnseq \o DisambigSuffix(cur_disambig))>>),
                  max_disambig |-> IF cur_disambig > st.max_disambig
                                   THEN cur_disambig ELSE st.max_disambig,
                  last_used |-> DSet(st.last_used, phnseq, cur_disambig)]

\* Variant of DisambigStep with one counter for the whole lexicon.
DisambigStepGlobalCounter(st, word, prons, count, issubseq) ==
    LET phnseq == Join(prons)
    IN  IF DGet(issubseq, phnseq) = 0 /\ DGet(count, phnseq) = 1
        THEN [st EXCEPT !.ans = Append(@, <<word, prons>>)]
        ELSE LET cur_disambig == st.max_disambig + 1
             IN  [ans |-> Append(st.ans, <<word, Split(phnseq \o DisambigSuffix(cur_disambig))>>),
                  max_disambig |-> cur_disambig,
                  last_used |-> DSet(st.last_used, phnseq, cur_disambig)]

\* Variant of DisambigStep that returns the last index assigned, not the largest.
DisambigStepLastIndex(st, word, prons, count, issubseq) ==
    LET phnseq == Join(prons)
    IN  IF DGet(issubseq, phnseq) = 0 /\ DGet(count, phnseq) = 1
        THEN [st EXCEPT !.ans = Append(@, <<word, prons>>)]
        ELSE LET last == DGet(st.last_used, phnseq)
                 cur_disambig == IF last = 0 THEN first_allowed_disambig ELSE last + 1
             IN  [ans |-> Append(st.ans, <<word, Split(phnseq \o DisambigSuffix(cur_disambig))>>),
                  max_disambig |-> cur_disambig,
                  last_used |-> DSet(st.last_used, phnseq, cur_disambig)]

\* (3) one iteration of the main loop on the entry <<word, prons>>.
DisambigStep(st, word, prons, count, issubseq) ==
    LET phnseq == Join(prons)
    IN  IF DGet(issubseq, phnseq) = 0 /\ DGet(count, phnseq) = 1
        THEN [st EXCEPT !.ans = Append(@, <<word, prons>>)]
        ELSE LET last == DGet(st.last_used, phnseq)
                 cur_disambig == IF last = 0 THEN first_allowed_disambig ELSE last + 1
             IN  [ans |-> Append(st.ans, <<word, Split(phnseq \o DisambigSuffix(cur_disambig))>>),
                  max_disambig |-> IF cur_disambig > st.max_disambig
                                   THEN cur_disambig ELSE st.max_disambig,
                  last_used |-> DSet(st.last_used, phnseq, cur_disambig)]

\* (3) the main loop; assert phnseq != "" guards each iteration.
RECURSIVE DisambigLoop(_, _, _, _, _)
DisambigLoop(lexicon, i, st, count, issubseq) ==
    IF i > Len(lexicon) THEN [raised |-> "none", st |-> st]
    ELSE IF Join(lexicon[i][2]) = <<>>
         THEN [raised |-> "AssertionError", st |-> st]
         ELSE DisambigLoop(lexicon, i + 1,
                           DisambigStep(st, lexicon[i][1], lexicon[i][2], count, issubseq),
                           count, issubseq)

\* What an exception carries: its type, the line that raised it and the
\* pieces of its message.
IndexErrorPop == [type |-> "IndexError", line |-> 91, msg |-> <<"pop from empty list">>]
AssertPhnseq == [type |-> "AssertionError", line |-> 110, msg |-> <<>>]
NoError == [type |-> "none", line |-> 0, msg |-> <<>>]

\* add_disambig_symbols(lexicon): either raises, or returns (ans, max_disambig).
add_disambig_symbols(lexicon) ==
    LET count == CountLoop(lexicon, 1, <<>>)
        sub == SubseqLoop(lexicon, 1, <<>>)
    IN  IF sub.raised # "none"
        THEN [error |-> IndexErrorPop, ans |-> <<>>, max_disambig |-> 0]
        ELSE LET r == DisambigLoop(lexicon, 1,
                                   [ans |-> <<>>,
                                    max_disambig |-> first_allowed_disambig - 1,
                                    last_used |-> <<>>],
                                   count, sub.issubseq)
             IN  IF r.raised # "none"
                 THEN [error |-> AssertPhnseq, ans |-> <<>>, max_disambig |-> 0]
                 ELSE [error |-> NoError, ans |-> r.st.ans,
                       max_disambig |-> r.st.max_disambig]

\* ------------------------------------------------------------ symbol tables
\* A symbol table is a function from symbols to ids (token2id, word2id).
\* The largest id in use, -1 in an empty table.
MaxOf(S) ==
    IF S = {} THEN -1
    ELSE CHOOSE y \in S : \A z \in S : z <= y

\* SymbolTable.add: a symbol already present keeps its id, a new one gets
\* the next id above those in use.
SymbolTableAdd(tbl, sym) ==
    IF sym \in DOMAIN tbl THEN tbl
    ELSE DSet(tbl, sym, MaxOf({tbl[x] : x \in DOMAIN tbl}) + 1)

\* tokens.txt: <unk> with id 0, then the pieces of the BPE model.
FileTokenTable(pieces) ==
    LET base == [x \in {"<unk>", "a", "b"} |->
                   IF x = "<unk>" THEN 0 ELSE IF x = "a" THEN 1 ELSE 2]
    IN  IF \E i \in 1..Len(pieces) : \E j \in 1..Len(pieces[i]) : pieces[i][j] = "#1"
        THEN SymbolTableAdd(base, "#1")
        ELSE base

\* words.txt: <eps> with id 0, then n words and, when has_unk, <UNK>.
RECURSIVE FileWordTableFrom(_, _, _)
FileWordTableFrom(n, i, tbl) ==
    IF i > n THEN tbl
    ELSE FileWordTableFrom(n, i + 1, SymbolTableAdd(tbl, WordAt(i)))

FileWordTable(n, has_unk) ==
    LET tbl == FileWordTableFrom(n, 1, [x \in {"<eps>"} |-> 0])
    IN  IF has_unk THEN SymbolTableAdd(tbl, "<UNK>") ELSE tbl

\* main, line 42
excluded == {"<eps>", "!SIL", "<SPOKEN_NOISE>", "<UNK>", "#0", "<s>", "</s>"}

\* main, lines 40-45: the symbols of the word table, in the order of their
\* ids (which is also their sorted order), without the excluded ones.
RECURSIVE WordsFrom(_, _)
WordsFrom(tbl, id) ==
    IF id > MaxOf({tbl[x] : x \in DOMAIN tbl}) THEN <<>>
    ELSE LET w == CHOOSE x \in DOMAIN tbl : tbl[x] = id
         IN  (IF w \in excluded THEN <<>> ELSE <<w>>) \o WordsFrom(tbl, id + 1)

Words(tbl) == WordsFrom(tbl, 0)

\* generate_lexicon: the words zipped with their pieces (words_pieces is
\* what sp.encode(words, out_type=str) returned), then the entry of <UNK>.
generate_lexicon(words, words_pieces) ==
    Append([i \in 1..(IF Len(words) <= Len(words_pieces)
                      THEN Len(words) ELSE Len(words_pieces))
              |-> <<words[i], words_pieces[i]>>],
           <<"<UNK>", <<"<unk>">>>>)

AssertNotInTable == [type |-> "AssertionError", line |-> 59, msg |-> <<>>]

\* main, lines 57-60: for i in range(max_disambig + 1): assert the symbol
\* #i is new, then add it.
RECURSIVE RegisterDisambig(_, _, _)
RegisterDisambig(tbl, i, max_disambig) ==
    IF i > max_disambig THEN [error |-> NoError, table |-> tbl]
    ELSE LET disambig == "#" \o ToString(i)
         IN  IF disambig \in DOMAIN tbl
             THEN [error |-> AssertNotInTable, table |-> tbl]
             ELSE RegisterDisambig(SymbolTableAdd(tbl, disambig), i + 1, max_disambig)

\* main, lines 62-64
RegisterWords(tbl) ==
    SymbolTableAdd(SymbolTableAdd(SymbolTableAdd(tbl, "#0"), "<s>"), "</s>")

\* ---------------------------------------------------- lexicon_to_fst_no_sil
loop_state == 0
eps == 0

KeyErrorAt(line, key) == [type |-> "KeyError", line |-> line, msg |-> <<key>>]
AssertUnk == [type |-> "AssertionError", line |-> 204, msg |-> <<>>]
AssertEps == [type |-> "AssertionError", line |-> 205, msg |-> <<>>]
AssertNoPron(word) ==
    [type |-> "AssertionError", line |-> 210, msg |-> <<word, " has no pronunciations">>]

\* Variant of MapTokens that resolves the tokens last to first.
RECURSIVE MapTokensReversed(_, _)
MapTokensReversed(prons, token2id) ==
    IF prons = <<>> THEN <<>>
    ELSE MapTokensReversed(Tail(prons), token2id) \o <<token2id[prons[1]]>>

\* prons = [token2id[i] for i in prons]
RECURSIVE MapTokens(_, _)
MapTokens(prons, token2id) ==
    IF prons = <<>> THEN <<>>
    ELSE <<token2id[prons[1]]>> \o MapTokens(Tail(prons), token2id)

\* Variant of PronLoop that puts the word on every arc, not on the first only.
RECURSIVE PronLoopWordEveryArc(_, _, _, _, _, _)
PronLoopWordEveryArc(prons, j, word, arcs, cur_state, next_state) ==
    IF j > Len(prons) - 1
    THEN [arcs |-> arcs, cur_state |-> cur_state, next_state |-> next_state]
    ELSE PronLoopWordEveryArc(prons, j + 1, word,
                              Append(arcs, <<cur_state, next_state, prons[j], word, 0>>),
                              next_state, next_state + 1)

\* for i in range(len(prons) - 1): one arc into a fresh state per token but
\* the last.  j is i + 1.
RECURSIVE PronLoop(_, _, _, _, _, _)
PronLoop(prons, j, word, arcs, cur_state, next_state) ==
    IF j > Len(prons) - 1
    THEN [arcs |-> arcs, cur_state |-> cur_state, next_state |-> next_state]
    ELSE PronLoop(prons, j + 1, word,
                  Append(arcs, <<cur_state, next_state, prons[j],
                                 IF j = 1 THEN word ELSE eps, 0>>),
                  next_state, next_state + 1)

\* Variant of EntryArcs that hands the next entry the states of this one.
EntryArcsNoAlloc(word, prons, arcs, next_state) ==
    LET r == PronLoop(prons, 1, word, arcs, loop_state, next_state)
        i == Len(prons) - 1
        w == IF i = 0 THEN word ELSE eps
    IN  [arcs |-> Append(r.arcs, <<r.cur_state, loop_state, prons[Len(prons)], w, 0>>),
         next_state |-> next_state]

\* The arcs of one lexicon entry, ids already resolved.
EntryArcs(word, prons, arcs, next_state) ==
    LET r == PronLoop(prons, 1, word, arcs, loop_state, next_state)
        i == Len(prons) - 1
        w == IF i = 0 THEN word ELSE eps
    IN  [arcs |-> Append(r.arcs, <<r.cur_state, loop_state, prons[Len(prons)], w, 0>>),
         next_state |-> r.next_state]

\* for word, prons in lexicon
RECURSIVE EntryLoop(_, _, _, _, _, _)
EntryLoop(lexicon, k, token2id, word2id, arcs, next_state) ==
    IF k > Len(lexicon)
    THEN [error |-> NoError, arcs |-> arcs, next_state |-> next_state]
    ELSE LET word == lexicon[k][1]
             prons == lexicon[k][2]
         IN  IF ~(Len(prons) > 0)
             THEN [error |-> AssertNoPron(word), arcs |-> arcs, next_state |-> next_state]
             ELSE IF word \notin DOMAIN word2id
             THEN [error |-> KeyErrorAt(213, word), arcs |-> arcs, next_state |-> next_state]
             ELSE IF \E j \in 1..Len(prons) : prons[j] \notin DOMAIN token2id
             THEN [error |-> KeyErrorAt(214, prons[CHOOSE j \in 1..Len(prons) :
                                                     /\ prons[j] \notin DOMAIN token2id
                                                     /\ \A h \in 1..(j - 1) :
                                                          prons[h] \in DOMAIN token2id]),
                   arcs |-> arcs, next_state |-> next_state]
             ELSE LET r == EntryArcs(word2id[word], MapTokens(prons, token2id),
                                     arcs, next_state)
                  IN  EntryLoop(lexicon, k + 1, token2id, word2id, r.arcs, r.next_state)

\* Variant of StatesNeedingSelfLoops that takes every source state.
StatesNeedingSelfLoopsAll(arcs) ==
    {arcs[n][1] : n \in 1..Len(arcs)}

\* add_self_loops, first loop: the states with a non-epsilon output label on
\* an arc out of them.
StatesNeedingSelfLoops(arcs) ==
    {arcs[n][1] : n \in {m \in 1..Len(arcs) : arcs[m][4] # 0}}

\* The orders in which the set of states can be iterated.
IterationOrders(S) ==
    {o \in [1..Cardinality(S) -> S] : \A s \in S : \E n \in 1..Cardinality(S) : o[n] = s}

\* add_self_loops; order is the order in which the set is iterated.
add_self_loops(arcs, disambig_phone, disambig_word, order) ==
    arcs \o [n \in 1..Len(order) |-> <<order[n], order[n], disambig_phone, disambig_word, 0>>]

\* sorted(arcs, key=lambda arc: arc[0]): stable, by insertion from the left.
RECURSIVE InsertByKey(_, _)
InsertByKey(sorted, arc) ==
    IF sorted = <<>> THEN <<arc>>
    ELSE IF sorted[Len(sorted)][1] <= arc[1] THEN Append(sorted, arc)
    ELSE Append(InsertByKey(SubSeq(sorted, 1, Len(sorted) - 1), arc), sorted[Len(sorted)])

RECURSIVE SortedFrom(_, _, _)
SortedFrom(arcs, n, acc) ==
    IF n > Len(arcs) THEN acc
    ELSE SortedFrom(arcs, n + 1, InsertByKey(acc, arcs[n]))

\* Variant of Sorted that leaves the arcs in the order they were appended.
SortedNot(arcs) == arcs

Sorted(arcs) == SortedFrom(arcs, 1, <<>>)

\* A builder that adds the self-loops after the terminating arc is in arcs.
lexicon_to_fst_no_sil_loops_last(lexicon, token2id, word2id, need_self_loops, order) ==
    IF "<unk>" \notin DOMAIN token2id THEN [error |-> KeyErrorAt(204, "<unk>"), arcs |-> <<>>]
    ELSE IF token2id["<unk>"] # 0 THEN [error |-> AssertUnk, arcs |-> <<>>]
    ELSE IF "<eps>" \notin DOMAIN word2id THEN [error |-> KeyErrorAt(205, "<eps>"), arcs |-> <<>>]
    ELSE IF word2id["<eps>"] # 0 THEN [error |-> AssertEps, arcs |-> <<>>]
    ELSE LET r == EntryLoop(lexicon, 1, token2id, word2id, <<>>, 1)
         IN  IF r.error.type # "none" THEN [error |-> r.error, arcs |-> <<>>]
             ELSE IF need_self_loops /\ "#0" \notin DOMAIN token2id
             THEN [error |-> KeyErrorAt(231, "#0"), arcs |-> <<>>]
             ELSE IF need_self_loops /\ "#0" \notin DOMAIN word2id
             THEN [error |-> KeyErrorAt(232, "#0"), arcs |-> <<>>]
             ELSE LET final_state == r.next_state
                      arcs1 == Append(r.arcs, <<loop_state, final_state, -1, -1, 0>>)
                      late == CHOOSE o \in IterationOrders(StatesNeedingSelfLoops(arcs1)) : TRUE
                      arcs2 == IF need_self_loops
                               THEN add_self_loops(arcs1, token2id["#0"], word2id["#0"], late)
                               ELSE arcs1
                  IN  [error |-> NoError, arcs |-> Sorted(Append(arcs2, <<final_state>>))]

\* lexicon_to_fst_no_sil: either raises, or hands k2.Fsa.from_str the
\* sorted lines, the last of which holds the final state alone.
lexicon_to_fst_no_sil(lexicon, token2id, word2id, need_self_loops, order) ==
    IF "<unk>" \notin DOMAIN token2id THEN [error |-> KeyErrorAt(204, "<unk>"), arcs |-> <<>>]
    ELSE IF token2id["<unk>"] # 0 THEN [error |-> AssertUnk, arcs |-> <<>>]
    ELSE IF "<eps>" \notin DOMAIN word2id THEN [error |-> KeyErrorAt(205, "<eps>"), arcs |-> <<>>]
    ELSE IF word2id["<eps>"] # 0 THEN [error |-> AssertEps, arcs |-> <<>>]
    ELSE LET r == EntryLoop(lexicon, 1, token2id, word2id, <<>>, 1)
         IN  IF r.error.type # "none" THEN [error |-> r.error, arcs |-> <<>>]
             ELSE IF need_self_loops /\ "#0" \notin DOMAIN token2id
             THEN [error |-> KeyErrorAt(231, "#0"), arcs |-> <<>>]
             ELSE IF need_self_loops /\ "#0" \notin DOMAIN word2id
             THEN [error |-> KeyErrorAt(232, "#0"), arcs |-> <<>>]
             ELSE LET arcs1 == IF need_self_loops
                               THEN add_self_loops(r.arcs, token2id["#0"], word2id["#0"], order)
                               ELSE r.arcs
                      final_state == r.next_state
                      arcs2 == Append(Append(arcs1, <<loop_state, final_state, -1, -1, 0>>),
                                      <<final_state>>)
                  IN  [error |-> NoError, arcs |-> Sorted(arcs2)]

\* The iteration orders add_self_loops can take on this lexicon.
SelfLoopOrders(lexicon, token2id, word2id) ==
    LET r == EntryLoop(lexicon, 1, token2id, word2id, <<>>, 1)
    IN  IF r.error.type # "none" THEN {<<>>}
        ELSE IterationOrders(StatesNeedingSelfLoops(r.arcs))

\* ------------------------------------------------------------------- state
VARIABLES
    pc,                \* where main stands
    words_pieces,      \* what the BPE model segments the words of words.txt into
    lexicon,           \* the lexicon generate_lexicon returned
    token_sym_table,   \* tokens.txt, then with #0..#max_disambig
    word_sym_table,    \* words.txt, then with #0 <s> </s>
    lexicon_disambig,  \* first value of add_disambig_symbols
    max_disambig,      \* second value of add_disambig_symbols
    L,                 \* the lines of lexicon_to_fst_no_sil(lexicon)
    L_disambig,        \* the lines of lexicon_to_fst_no_sil(lexicon_disambig, self-loops)
    error              \* the exception that ended main, if any

vars == <<pc, words_pieces, lexicon, token_sym_table, word_sym_table, lexicon_disambig,
          max_disambig, L, L_disambig, error>>

\* main, lines 35-53: words.txt holds at most MaxEntries words, with or
\* without <UNK>; the BPE model segments them into at most MaxTokens pieces
\* in all (a word may get no piece); tokens.txt lists the pieces. The lexicon
\* main works on always ends with the <UNK> entry; the functions called on
\* any lexicon, the empty one included, start from InitCall.
Init ==
    /\ \E n \in 0..MaxEntries :
         \E lens \in [1..n -> 0..MaxTokens] :
            /\ TokensBefore(lens, n) <= MaxTokens
            /\ \E flat \in [1..TokensBefore(lens, n) -> Tokens] :
                  words_pieces = PiecesOf(lens, flat)
            /\ \E has_unk \in BOOLEAN : word_sym_table = FileWordTable(n, has_unk)
    /\ pc = "generate_lexicon"
    /\ lexicon = <<>>
    /\ token_sym_table = FileTokenTable(words_pieces)
    /\ lexicon_disambig = <<>>
    /\ max_disambig = 0
    /\ L = <<>>
    /\ L_disambig = <<>>
    /\ error = NoError

\* main, line 47
GenerateLexicon ==
    /\ pc = "generate_lexicon"
    /\ lexicon' = generate_lexicon(Words(word_sym_table), words_pieces)
    /\ pc' = "add_disambig_symbols"
    /\ UNCHANGED <<words_pieces, token_sym_table, word_sym_table, lexicon_disambig,
                   max_disambig, L, L_disambig, error>>

\* main, line 55
AddDisambigSymbols ==
    /\ pc = "add_disambig_symbols"
    /\ LET r == add_disambig_symbols(lexicon)
       IN  IF r.error.type # "none"
           THEN /\ pc' = "raised"
                /\ error' = r.error
                /\ UNCHANGED <<lexicon_disambig, max_disambig>>
           ELSE /\ pc' = "register"
                /\ lexicon_disambig' = r.ans
                /\ max_disambig' = r.max_disambig
                /\ UNCHANGED error
    /\ UNCHANGED <<words_pieces, lexicon, token_sym_table, word_sym_table, L, L_disambig>>

\* main, lines 57-64
RegisterSymbols ==
    /\ pc = "register"
    /\ LET r == RegisterDisambig(token_sym_table, 0, max_disambig)
       IN  IF r.error.type # "none"
           THEN /\ pc' = "raised"
                /\ error' = r.error
                /\ token_sym_table' = r.table
                /\ UNCHANGED word_sym_table
           ELSE /\ pc' = "build_L"
                /\ token_sym_table' = r.table
                /\ word_sym_table' = RegisterWords(word_sym_table)
                /\ UNCHANGED error
    /\ UNCHANGED <<words_pieces, lexicon, lexicon_disambig, max_disambig, L, L_disambig>>

\* main, lines 71-75
BuildL ==
    /\ pc = "build_L"
    /\ LET r == lexicon_to_fst_no_sil(lexicon, token_sym_table, word_sym_table, FALSE, <<>>)
       IN  IF r.error.type # "none"
           THEN /\ pc' = "raised"
                /\ error' = r.error
                /\ UNCHANGED L
           ELSE /\ pc' = "build_L_disambig"
                /\ L' = r.arcs
                /\ UNCHANGED error
    /\ UNCHANGED <<words_pieces, lexicon, token_sym_table, word_sym_table, lexicon_disambig,
                   max_disambig, L_disambig>>

\* main, lines 77-82
BuildLDisambig ==
    /\ pc = "build_L_disambig"
    /\ \E order \in SelfLoopOrders(lexicon_disambig, token_sym_table, word_sym_table) :
         LET r == lexicon_to_fst_no_sil(lexicon_disambig, token_sym_table,
                                        word_sym_table, TRUE, order)
         IN  IF r.error.type # "none"
             THEN /\ pc' = "raised"
                  /\ error' = r.error
                  /\ UNCHANGED L_disambig
             ELSE /\ pc' = "done"
                  /\ L_disambig' = r.arcs
                  /\ UNCHANGED error
    /\ UNCHANGED <<words_pieces, lexicon, token_sym_table, word_sym_table, lexicon_disambig,
                   max_disambig, L>>

Next ==
    \/ GenerateLexicon
    \/ AddDisambigSymbols
    \/ RegisterSymbols
    \/ BuildL
    \/ BuildLDisambig

Spec == Init /\ [][Next]_vars

\* ------------------------------------------- the builder, called on its own
\* lexicon_to_fst_no_sil is a public function of the module: a caller hands
\* it any lexicon, the empty one included, and either value of
\* need_self_loops. The words and tokens of the lexicon such a caller builds.
CallWords == {"W1", "W2"}
CallTokens == {"a", "b"}

\* The tables of the call: tokens.txt and words.txt with #0 registered.
CallTokenTable == RegisterDisambig(FileTokenTable(<<>>), 0, 0).table
CallWordTable == RegisterWords(FileWordTable(Cardinality(CallWords), TRUE))

\* The arguments of the calls: at most MaxEntries entries, at most MaxTokens
\* tokens in all, a word may occur twice and a pronunciation may be empty.
\* lexicon is the argument of the call without self-loops, lexicon_disambig
\* the one of the call with them: the same lexicon.
InitCall ==
    /\ \E n \in 0..MaxEntries :
         \E lens \in [1..n -> 0..MaxTokens] :
            /\ TokensBefore(lens, n) <= MaxTokens
            /\ \E flat \in [1..TokensBefore(lens, n) -> CallTokens] :
                 \E ws \in [1..n -> CallWords] :
                    lexicon = [i \in 1..n |-> <<ws[i], PiecesOf(lens, flat)[i]>>]
    /\ pc = "call"
    /\ words_pieces = <<>>
    /\ lexicon_disambig = lexicon
    /\ token_sym_table = CallTokenTable
    /\ word_sym_table = CallWordTable
    /\ max_disambig = 0
    /\ L = <<>>
    /\ L_disambig = <<>>
    /\ error = NoError

\* lexicon_to_fst_no_sil(lexicon, token2id, word2id, need_self_loops=False)
CallBuild ==
    /\ pc = "call"
    /\ LET r == lexicon_to_fst_no_sil(lexicon, token_sym_table, word_sym_table, FALSE, <<>>)
       IN  IF r.error.type # "none"
           THEN /\ pc' = "raised"
                /\ error' = r.error
                /\ UNCHANGED L
           ELSE /\ pc' = "call_self_loops"
                /\ L' = r.arcs
                /\ UNCHANGED error
    /\ UNCHANGED <<words_pieces, lexicon, token_sym_table, word_sym_table, lexicon_disambig,
                   max_disambig, L_disambig>>

\* lexicon_to_fst_no_sil(lexicon, token2id, word2id, need_self_loops=True)
CallBuildSelfLoops ==
    /\ pc = "call_self_loops"
    /\ \E order \in SelfLoopOrders(lexicon_disambig, token_sym_table, word_sym_table) :
         LET r == lexicon_to_fst_no_sil(lexicon_disambig, token_sym_table,
                                        word_sym_table, TRUE, order)
         IN  IF r.error.type # "none"
             THEN /\ pc' = "raised"
                  /\ error' = r.error
                  /\ UNCHANGED L_disambig
             ELSE /\ pc' = "returned"
                  /\ L_disambig' = r.arcs
                  /\ UNCHANGED error
    /\ UNCHANGED <<words_pieces, lexicon, token_sym_table, word_sym_table, lexicon_disambig,
                   max_disambig, L>>

NextCall ==
    \/ CallBuild
    \/ CallBuildSelfLoops

SpecCall == InitCall /\ [][NextCall]_vars

\* ================================================================ properties
IsPrefix(p, q) == Len(p) <= Len(q) /\ SubSeq(q, 1, Len(p)) = p
IsProperPrefix(p, q) == Len(p) < Len(q) /\ SubSeq(q, 1, Len(p)) = p

\* add_disambig_symbols has returned (main may have failed later, at the
\* registration of the symbols or at a lookup of a word).
Returned ==
    \/ pc \in {"register", "build_L", "build_L_disambig", "done"}
    \/ pc = "raised" /\ error.line \notin {91, 110}

\* The text #k.
Hash(k) == "#" \o ToString(k)

\* No input token has the shape #k, k >= 1.
NoHashInput ==
    \A i \in 1..Len(lexicon) : \A j \in 1..Len(lexicon[i][2]) :
        lexicon[i][2][j] \notin {Hash(k) : k \in 1..Len(lexicon)}

\* No two entries spell the same tokens and none spells a proper prefix of
\* another.
CollisionFree(lex) ==
    \A i, j \in 1..Len(lex) :
        i # j => /\ lex[i][2] # lex[j][2]
                 /\ ~IsProperPrefix(lex[i][2], lex[j][2])

\* Entry i of the input is ambiguous: its tokens occur more than once, or
\* are a proper prefix of another entry's.
Ambiguous(i) ==
    \/ \E j \in 1..Len(lexicon) : j # i /\ lexicon[j][2] = lexicon[i][2]
    \/ \E j \in 1..Len(lexicon) : IsProperPrefix(lexicon[i][2], lexicon[j][2])

\* The rank of entry i among the entries with the same tokens.
Rank(i) == Cardinality({j \in 1..i : lexicon[j][2] = lexicon[i][2]})

\* C1 as stated: for every lexicon of non-empty pronunciations the returned
\* lexicon has no two equal token sequences and none that is a proper
\* prefix of another.
C1_AsStated == Returned => CollisionFree(lexicon_disambig)

\* C1, amended: the same, for lexicons none of whose input tokens already
\* has the shape #k (k >= 1).
C1_CollisionFree == (Returned /\ NoHashInput) => CollisionFree(lexicon_disambig)

C1_Witness ==
    /\ Returned
    /\ NoHashInput
    /\ \E i, j \in 1..Len(lexicon) : i # j /\ lexicon[i][2] = lexicon[j][2]
    /\ \E i, j \in 1..Len(lexicon) : IsProperPrefix(lexicon[i][2], lexicon[j][2])

\* C2: the returned lexicon has the length and the words of the input, in
\* order; an entry is unchanged exactly when it is not ambiguous, and is
\* otherwise the input pronunciation followed by one token #k.
C2_ShapeOfResult ==
    Returned =>
        /\ Len(lexicon_disambig) = Len(lexicon)
        /\ \A i \in 1..Len(lexicon) :
            /\ lexicon_disambig[i][1] = lexicon[i][1]
            /\ (lexicon_disambig[i][2] = lexicon[i][2]) <=> ~Ambiguous(i)
            /\ Ambiguous(i) =>
                 \E k \in 1..Len(lexicon) :
                     lexicon_disambig[i][2] = Append(lexicon[i][2], Hash(k))

C2_Witness ==
    /\ Returned
    /\ \E i \in 1..Len(lexicon) : Ambiguous(i) /\ lexicon_disambig[i][2] # lexicon[i][2]
    /\ \E i \in 1..Len(lexicon) : ~Ambiguous(i) /\ lexicon_disambig[i][2] = lexicon[i][2]

\* C3: the index appended to an ambiguous entry is its rank, in lexicon
\* order, among the entries with the same tokens, counted from 1 and
\* separately for each token sequence.
C3_IndexIsRank ==
    Returned =>
        \A i \in 1..Len(lexicon) :
            Ambiguous(i) => lexicon_disambig[i][2] = Append(lexicon[i][2], Hash(Rank(i)))

\* Two different ambiguous token sequences, one of them occurring twice.
C3_Witness ==
    /\ Returned
    /\ \E i, j, h \in 1..Len(lexicon) :
        /\ i < j
        /\ lexicon[i][2] = lexicon[j][2]
        /\ lexicon[h][2] # lexicon[i][2]
        /\ Ambiguous(h)
        /\ lexicon_disambig[i][2] = Append(lexicon[i][2], "#1")
        /\ lexicon_disambig[j][2] = Append(lexicon[j][2], "#2")
        /\ lexicon_disambig[h][2] = Append(lexicon[h][2], "#1")

\* C7 as stated: a lexicon with an empty pronunciation makes the call fail
\* with an error that names the word of such an entry, and no lexicon is
\* returned.
C7_AsStated ==
    ((\E i \in 1..Len(lexicon) : lexicon[i][2] = <<>>)
        /\ pc \notin {"generate_lexicon", "add_disambig_symbols"}) =>
        /\ pc = "raised"
        /\ lexicon_disambig = <<>>
        /\ \E i \in 1..Len(lexicon) :
            /\ lexicon[i][2] = <<>>
            /\ \E n \in 1..Len(error.msg) : error.msg[n] = lexicon[i][1]

\* The tokens add_disambig_symbols appended.
Appended ==
    {lexicon_disambig[i][2][Len(lexicon_disambig[i][2])] :
        i \in {h \in 1..Len(lexicon_disambig) :
                 Len(lexicon_disambig[h][2]) = Len(lexicon[h][2]) + 1}}

\* A token that reads #k, k >= 1, far enough to cover every index in reach.
IsHashToken(t) == t \in {Hash(k) : k \in 1..(Len(lexicon) + 1)}

\* C8 as stated: max_disambig is the largest index appended, 0 when none
\* was, and every token #k of the returned lexicon, wherever it stands,
\* has 1 <= k <= max_disambig.
C8_AsStated ==
    Returned =>
        /\ Appended = {} => max_disambig = 0
        /\ Appended # {} => Hash(max_disambig) \in Appended
        /\ \A i \in 1..Len(lexicon_disambig) :
             \A j \in 1..Len(lexicon_disambig[i][2]) :
                IsHashToken(lexicon_disambig[i][2][j])
                   => lexicon_disambig[i][2][j] \in {Hash(k) : k \in 1..max_disambig}

\* C8: max_disambig is the largest index appended, 0 when none was; every
\* appended token is #k with 1 <= k <= max_disambig, and once main has
\* registered #0..#max_disambig every appended token is in the token table
\* and no lookup of a token fails.
C8_MaxDisambig ==
    Returned =>
        /\ Appended = {} => max_disambig = 0
        /\ Appended # {} => Hash(max_disambig) \in Appended
        /\ Appended \subseteq {Hash(k) : k \in 1..max_disambig}
        /\ pc \in {"build_L", "build_L_disambig", "done"} =>
               /\ Appended \subseteq DOMAIN token_sym_table
               /\ \A k \in 0..max_disambig : Hash(k) \in DOMAIN token_sym_table
        /\ ~(error.type = "KeyError" /\ error.line = 214)

\* The last index assigned is smaller than the largest one.
C8_Witness ==
    /\ pc = "done"
    /\ max_disambig = 2
    /\ \E i, j \in 1..Len(lexicon) :
        /\ i < j
        /\ lexicon_disambig[i][2] = Append(lexicon[i][2], "#2")
        /\ lexicon_disambig[j][2] = Append(lexicon[j][2], "#1")

\* ------------------------------------------------------------ the automaton
BuiltL == pc \in {"build_L_disambig", "done", "call_self_loops", "returned"}
BuiltLDisambig == pc \in {"done", "returned"}

\* What the builder returns for the empty lexicon.
EmptyLexiconLines == <<<<0, 1, -1, -1, 0>>, <<1>>>>

IsArc(a) == Len(a) = 5
IsTerminating(a) == IsArc(a) /\ (a[3] = -1 \/ a[4] = -1)

\* The self-loop that carries #0 on state s.
SelfLoopOn(s) == <<s, s, token_sym_table["#0"], word_sym_table["#0"], 0>>

\* The positions of the arcs of a pronunciation: every arc but the
\* terminating one and the #0 self-loops.
WordArcs(arcs) ==
    {n \in 1..Len(arcs) :
        IsArc(arcs[n]) /\ ~IsTerminating(arcs[n]) /\ arcs[n] # SelfLoopOn(arcs[n][1])}

CountIn(seq, x) == Cardinality({n \in 1..Len(seq) : seq[n] = x})

RECURSIVE TotalTokens(_)
TotalTokens(lex) ==
    IF lex = <<>> THEN 0 ELSE Len(lex[1][2]) + TotalTokens(Tail(lex))

\* The arcs met from arc a on, following an arc out of each state reached,
\* up to the return to state 0; at most fuel arcs.
RECURSIVE ChainFrom(_, _, _)
ChainFrom(arcs, a, fuel) ==
    IF a[2] = 0 \/ fuel <= 1 \/ ~\E n \in WordArcs(arcs) : arcs[n][1] = a[2]
    THEN <<a>>
    ELSE <<a>> \o ChainFrom(arcs, arcs[CHOOSE n \in WordArcs(arcs) : arcs[n][1] = a[2]],
                            fuel - 1)

\* The chain of entry i: it starts at the i-th arc of the list.
ChainOf(lex, arcs, i) == ChainFrom(arcs, arcs[i], Len(lex[i][2]) + 1)

StatesOf(c) == {c[j][1] : j \in 1..Len(c)} \cup {c[j][2] : j \in 1..Len(c)}

\* Entry i of lex has its chain of arcs in arcs.
EntryChain(lex, arcs, i) ==
    LET word == lex[i][1]
        prons == lex[i][2]
        n == Len(prons)
        c == ChainOf(lex, arcs, i)
        earlier == UNION {StatesOf(ChainOf(lex, arcs, h)) : h \in 1..(i - 1)}
    IN  /\ n >= 1
        /\ i \in WordArcs(arcs)
        /\ Len(c) = n
        /\ c[1][1] = 0
        /\ c[n][2] = 0
        /\ \A j \in 1..n :
            /\ c[j][3] = token_sym_table[prons[j]]
            /\ c[j][4] = (IF j = 1 THEN word_sym_table[word] ELSE 0)
            /\ c[j][5] = 0
            /\ j < n => /\ c[j + 1][1] = c[j][2]
                        /\ c[j][2] \notin earlier \cup StatesOf(SubSeq(c, 1, j - 1))
                                                  \cup {c[j][1]}

EntryChains(lex, arcs) ==
    /\ Cardinality(WordArcs(arcs)) = TotalTokens(lex)
    /\ \A i \in 1..Len(lex) : EntryChain(lex, arcs, i)

\* C4: every entry of n tokens has exactly n arcs, a chain from state 0 back
\* to state 0 through fresh states, with the token ids as input labels, the
\* word id as output label of the first arc and epsilon on the others, and
\* weight 0; a one-token entry has the single arc (0, 0, token, word, 0).
C4_EntryChains ==
    /\ BuiltL => EntryChains(lexicon, L)
    /\ BuiltLDisambig => EntryChains(lexicon_disambig, L_disambig)

C4_Witness ==
    /\ BuiltLDisambig
    /\ \E i \in 1..Len(lexicon) : Len(lexicon[i][2]) = 1
    /\ \E i \in 2..Len(lexicon) : Len(lexicon[i][2]) >= 3
    /\ \E i \in 1..Len(lexicon) : Len(lexicon_disambig[i][2]) > Len(lexicon[i][2])

\* The states that are the source of a non-terminating arc with a
\* non-epsilon output label.
EmittingStates(arcs) ==
    {arcs[n][1] : n \in {m \in 1..Len(arcs) :
                           IsArc(arcs[m]) /\ ~IsTerminating(arcs[m]) /\ arcs[m][4] # 0}}

\* with is without plus one #0 self-loop on each emitting state of without.
PlusSelfLoops(with, without) ==
    LET S == EmittingStates(without)
    IN  /\ Len(with) = Len(without) + Cardinality(S)
        /\ \A n \in 1..Len(with) :
             CountIn(with, with[n]) =
                 CountIn(without, with[n])
                   + (IF \E s \in S : with[n] = SelfLoopOn(s) THEN 1 ELSE 0)
        /\ \A n \in 1..Len(without) : CountIn(with, without[n]) >= 1
        /\ \A s \in S : CountIn(with, SelfLoopOn(s)) = 1

WellOrdered(arcs) ==
    /\ Len(arcs) >= 2
    /\ \A n \in 1..(Len(arcs) - 1) : IsArc(arcs[n]) /\ arcs[n][1] <= arcs[n + 1][1]
    /\ Len(arcs[Len(arcs)]) = 1
    /\ \E n \in 1..(Len(arcs) - 1) :
         IsTerminating(arcs[n]) /\ arcs[n][2] = arcs[Len(arcs)][1]

\* C6: the list handed to the automaton library is sorted by source state
\* and ends with the line of the final state, for every lexicon, the empty
\* one included, and with or without self-loops.
C6_SortedLines ==
    /\ BuiltL => WellOrdered(L)
    /\ BuiltLDisambig => WellOrdered(L_disambig)
    /\ (BuiltL /\ lexicon = <<>>) => (L = EmptyLexiconLines /\ WellOrdered(EmptyLexiconLines))
    /\ (BuiltLDisambig /\ lexicon_disambig = <<>>) => L_disambig = EmptyLexiconLines

\* Both calls have returned on the empty lexicon.
C6_Witness ==
    /\ pc = "returned"
    /\ lexicon = <<>>
    /\ lexicon_disambig = <<>>
    /\ L = EmptyLexiconLines
    /\ L_disambig = EmptyLexiconLines

RECURSIVE ChainStates(_)
ChainStates(lex) ==
    IF lex = <<>> THEN 0 ELSE (Len(lex[1][2]) - 1) + ChainStates(Tail(lex))

\* The shape of the automaton of lex.
DenseStates(lex, arcs) ==
    LET final == 1 + ChainStates(lex)
        A == {n \in 1..Len(arcs) : IsArc(arcs[n])}
    IN  /\ arcs[Len(arcs)] = <<final>>
        /\ {arcs[n][1] : n \in A} \cup {arcs[n][2] : n \in A} = 0..final
        /\ Cardinality({n \in A : IsTerminating(arcs[n]) \/ arcs[n][2] = final}) = 1
        /\ \E n \in A : arcs[n] = <<0, final, -1, -1, 0>>
        /\ \A n \in A : arcs[n][1] # final
        /\ \A s \in 1..(final - 1) :
            /\ Cardinality({n \in A : arcs[n][1] = s}) = 1
            /\ Cardinality({n \in A : arcs[n][2] = s}) = 1

\* C9: the final state is 1 plus the sum of (tokens - 1) over the entries,
\* the states used are 0..final, there is one terminating arc
\* (0, final, -1, -1, 0), the final state has no outgoing arc and every
\* state strictly between 0 and final has one incoming and one outgoing arc.
C9_DenseStates ==
    /\ BuiltL => DenseStates(lexicon, L)
    /\ BuiltLDisambig => DenseStates(lexicon_disambig, L_disambig)

C9_Witness ==
    /\ BuiltLDisambig
    /\ Len(lexicon) = 4
    /\ \A i \in 1..3 : Len(lexicon_disambig[i][2]) >= 2
    /\ L_disambig[Len(L_disambig)][1] >= 4

\* The walks of at most fuel arcs that start with the arc at position n and
\* stop at their first return to state 0, as sequences of positions.
RECURSIVE WalksFrom(_, _, _)
WalksFrom(arcs, n, fuel) ==
    IF arcs[n][2] = 0 THEN {<<n>>}
    ELSE IF fuel <= 1 THEN {}
    ELSE UNION {{<<n>> \o w : w \in WalksFrom(arcs, m, fuel - 1)} :
                  m \in {h \in 1..Len(arcs) : IsArc(arcs[h]) /\ arcs[h][1] = arcs[n][2]}}

\* The cycles through state 0: the walks from state 0 back to it.
Cycles(arcs) ==
    UNION {WalksFrom(arcs, n, Len(arcs)) :
             n \in {h \in 1..Len(arcs) : IsArc(arcs[h]) /\ arcs[h][1] = 0}}

InputLabels(arcs, w) == [j \in 1..Len(w) |-> arcs[w[j]][3]]

RECURSIVE NonEpsilon(_)
NonEpsilon(labels) ==
    IF labels = <<>> THEN <<>>
    ELSE (IF labels[1] = 0 THEN <<>> ELSE <<labels[1]>>) \o NonEpsilon(Tail(labels))

OutputLabels(arcs, w) == NonEpsilon([j \in 1..Len(w) |-> arcs[w[j]][4]])

\* Walk w spells entry e: the token ids as input, the word id as output.
Spells(arcs, w, e) ==
    /\ InputLabels(arcs, w) = [j \in 1..Len(e[2]) |-> token_sym_table[e[2][j]]]
    /\ OutputLabels(arcs, w) = <<word_sym_table[e[1]]>>

\* C10: without self-loops, the final state is entered by the terminating
\* arc out of state 0 only and left by no arc, and the cycles through state
\* 0 are the entries of the lexicon: each cycle spells the token ids of one
\* entry and puts out its word id alone, and each entry has its cycle.  A
\* path from state 0 to the final state is then a sequence of such cycles
\* and the terminating arc.
C10_PathsAreWords ==
    BuiltL =>
        /\ \A n \in 1..Len(L) :
            IsArc(L[n]) =>
                /\ L[n][1] # L[Len(L)][1]
                /\ L[n][2] = L[Len(L)][1] => L[n] = <<0, L[Len(L)][1], -1, -1, 0>>
                /\ IsTerminating(L[n]) => L[n][2] = L[Len(L)][1]
        /\ Cardinality(Cycles(L)) = Len(lexicon)
        /\ \A w \in Cycles(L) : \E i \in 1..Len(lexicon) : Spells(L, w, lexicon[i])
        /\ \A i \in 1..Len(lexicon) : \E w \in Cycles(L) : Spells(L, w, lexicon[i])

C10_Witness ==
    /\ BuiltL
    /\ Len(lexicon) = 4
    /\ \E w \in Cycles(L) : Len(w) = 1 /\ L[w[1]][3] = 0
    /\ \E w \in Cycles(L) : Len(w) = 3
    /\ \E i, j \in 1..3 : i # j /\ lexicon[i][2] = lexicon[j][2]

====
